---- MODULE Spec2Model ----
(***************************************************************************)
(* Model of scripts/youtube_to_obsidian.py: the time formatter, the        *)
(* chapter builder, the transcript acquisition tiers (captions, then ASR   *)
(* fallback with its scratch directory and download retries), the          *)
(* deterministic renderer and the LLM reformat pass with its fallback.     *)
(*                                                                         *)
(* Text is a sequence of characters, a character being a string.  A        *)
(* character outside ASCII is written by its code point ("U+FF08").        *)
(* Offsets in seconds are floats in the program; here an offset is an      *)
(* integer number of ticks, Resolution ticks to the second, so that        *)
(* int() has a fraction to truncate.                                       *)
(***************************************************************************)
EXTENDS Integers, Sequences, FiniteSets, TLC

VARIABLES
    pc,             \* position of the run (which function is about to act)
    hmsIn,          \* hms: the argument `seconds`, in ticks
    hmsOut,         \* hms: the returned label
    meta,           \* metadata record (chapters, description, uploader, title)
    transcript,     \* list of utterances {start, text}
    chapters,       \* build_chapters' result
    grouped,        \* render: chapter index -> rows of that bucket
    out,            \* render: the list of output lines
    ci,             \* render: index of the chapter being rendered (0-based)
    ri,             \* render: number of rows of the bucket already processed
    buf,            \* render: paragraph buffer
    buf_sentences,  \* render: sentence counter of the buffer
    last_ts,        \* render: start of the last buffered utterance
    labeled,        \* render: speaker tag already emitted in this chapter
    doc,            \* render: the returned document
    prompt_text,    \* main: text of the style prompt file ("" when absent)
    captions,       \* get_transcript: what api.fetch did
    transcript_source, \* main: the provenance tag
    asr_calls,      \* number of calls of asr_fallback
    ffmpeg,         \* asr_fallback: whether get_ffmpeg_exe found an executable
    tmp,            \* asr_fallback: the scratch directory exists
    tmp_created,    \* number of scratch directories created
    attempt,        \* asr_fallback: index of the next download command
    last_err,       \* asr_fallback: last_err of the download loop
    tried,          \* the download commands run so far, with their results
    whisper_runs,   \* number of runs of the transcription tool
    gemini,         \* render_with_gemini: what the LLM tool did
    gemini_runs,    \* number of runs of the LLM tool
    error,          \* the exception that ended the run ("none" when none)
    note            \* main: the document

hmsVars == <<hmsIn, hmsOut>>
inputVars == <<meta, transcript>>
renderVars == <<chapters, grouped, out, ci, ri, buf, buf_sentences, last_ts, labeled, doc>>
acquireVars == <<captions, transcript_source, asr_calls, ffmpeg, tmp, tmp_created,
                 attempt, last_err, tried, whisper_runs>>
formatVars == <<gemini, gemini_runs, note>>
mainVars == <<prompt_text, acquireVars, formatVars, error>>
vars == <<pc, hmsVars, inputVars, renderVars, mainVars>>

----------------------------------------------------------------------------
(* Bounds of the model *)

\* ticks per second
Resolution == 2
\* hms is applied to the offsets within HmsSpread ticks of each base offset
HmsSpread == 4

----------------------------------------------------------------------------
(* Characters and strings *)

Max(a, b) == IF a >= b THEN a ELSE b

DigitChars == <<"0", "1", "2", "3", "4", "5", "6", "7", "8", "9">>

IsDigit(c) == \E i \in 1..10 : DigitChars[i] = c

DigitValue(c) == (CHOOSE i \in 1..10 : DigitChars[i] = c) - 1

\* \s of the re module, restricted to ASCII
IsSpace(c) == c \in {" ", "\t", "\n", "\r", "\f"}

AllSpace(s) == \A i \in 1..Len(s) : IsSpace(s[i])

RECURSIVE LStrip(_)
LStrip(s) == IF s # <<>> /\ IsSpace(s[1]) THEN LStrip(Tail(s)) ELSE s

RECURSIVE RStrip(_)
RStrip(s) ==
    IF s # <<>> /\ IsSpace(s[Len(s)]) THEN RStrip(SubSeq(s, 1, Len(s) - 1)) ELSE s

\* str.strip()
Strip(s) == RStrip(LStrip(s))

\* decimal digits of n >= 0, as str(n)
RECURSIVE Digits(_)
Digits(n) ==
    IF n < 10 THEN <<DigitChars[n + 1]>>
    ELSE Digits(n \div 10) \o <<DigitChars[(n % 10) + 1]>>

\* int(s) of a non-empty string of digits
RECURSIVE ParseNat(_)
ParseNat(s) ==
    IF Len(s) = 1 THEN DigitValue(s[1])
    ELSE ParseNat(SubSeq(s, 1, Len(s) - 1)) * 10 + DigitValue(s[Len(s)])

\* format spec 02d: at least two digits, zero padded, never cut
Pad2(n) == IF n < 10 THEN <<"0">> \o Digits(n) ELSE Digits(n)

\* sep.join(parts)
RECURSIVE Join(_, _)
Join(sep, parts) ==
    IF parts = <<>> THEN <<>>
    ELSE IF Len(parts) = 1 THEN parts[1]
    ELSE parts[1] \o sep \o Join(sep, Tail(parts))

----------------------------------------------------------------------------
(* hms *)

\* int(max(0, seconds)): clamp, then truncate to whole seconds
WholeSeconds(seconds) == Max(0, seconds) \div Resolution

hms_hours_cut(seconds) ==
    LET s == WholeSeconds(seconds)
        h == (s \div 3600) % 100
        m == (s % 3600) \div 60
        sec == s % 60
    IN <<"[">> \o Pad2(h) \o <<":">> \o Pad2(m) \o <<":">> \o Pad2(sec) \o <<"]">>

hms(seconds) ==
    LET s == WholeSeconds(seconds)
        h == s \div 3600
        m == (s % 3600) \div 60
        sec == s % 60
    IN <<"[">> \o Pad2(h) \o <<":">> \o Pad2(m) \o <<":">> \o Pad2(sec) \o <<"]">>

----------------------------------------------------------------------------
(* Caption text: clean_caption_text, is_non_speech, sentence_count *)

UpperChars == <<"A", "B", "C", "D", "E", "F", "G", "H", "I", "J", "K", "L", "M",
                "N", "O", "P", "Q", "R", "S", "T", "U", "V", "W", "X", "Y", "Z">>
LowerChars == <<"a", "b", "c", "d", "e", "f", "g", "h", "i", "j", "k", "l", "m",
                "n", "o", "p", "q", "r", "s", "t", "u", "v", "w", "x", "y", "z">>

LowerChar(c) ==
    IF \E i \in 1..26 : UpperChars[i] = c
    THEN LowerChars[CHOOSE i \in 1..26 : UpperChars[i] = c]
    ELSE c

\* str.lower()
Lower(s) == [i \in 1..Len(s) |-> LowerChar(s[i])]

\* sub in s
Contains(s, sub) ==
    \E i \in 1..(Len(s) - Len(sub) + 1) : SubSeq(s, i, i + Len(sub) - 1) = sub

\* s.replace(a, b) for a single character a and a string b
RECURSIVE ReplaceChar(_, _, _)
ReplaceChar(s, a, b) ==
    IF s = <<>> THEN <<>>
    ELSE (IF s[1] = a THEN b ELSE <<s[1]>>) \o ReplaceChar(Tail(s), a, b)

\* re.sub(r"^>+\s*", "", t)
RECURSIVE DropLeading(_, _)
DropLeading(s, c) == IF s # <<>> /\ s[1] = c THEN DropLeading(Tail(s), c) ELSE s

StripQuoteMarker(t) ==
    IF t # <<>> /\ t[1] = ">" THEN LStrip(DropLeading(t, ">")) ELSE t

\* re.sub(r"\s+", " ", t)
RECURSIVE CollapseSpace(_)
CollapseSpace(t) ==
    IF t = <<>> THEN <<>>
    ELSE IF IsSpace(t[1]) THEN <<" ">> \o CollapseSpace(LStrip(t))
    ELSE <<t[1]>> \o CollapseSpace(Tail(t))

clean_caption_text(text) ==
    LET t1 == Strip(text)
        t2 == StripQuoteMarker(t1)
        t3 == CollapseSpace(t2)
        t4 == ReplaceChar(ReplaceChar(t3, "[", <<>>), "]", <<>>)
    IN Strip(t4)

\* the character classes of the pattern of is_non_speech: [ ( U+FF08 U+3010
\* and ] ) U+FF09 U+3011
OpenBrackets == {"[", "(", "U+FF08", "U+3010"}
CloseBrackets == {"]", ")", "U+FF09", "U+3011"}

Markers == {
    <<"l", "a", "u", "g", "h", "t", "e", "r">>,
    <<"m", "u", "s", "i", "c">>,
    <<"a", "p", "p", "l", "a", "u", "s", "e">>,
    <<"l", "a", "u", "g", "h", "s">>,
    <<"[", "U+97F3", "U+4E50">>,
    <<"[", "U+7B11">>,
    <<"U+FF08", "U+7B11">>,
    <<"U+3010", "U+97F3", "U+4E50">>,
    <<"U+3010", "U+7B11">> }

\* re.fullmatch(r"[\[(...].*[\])...]", t): . matches no newline
FullyBracketed(t) ==
    /\ Len(t) >= 2
    /\ t[1] \in OpenBrackets
    /\ t[Len(t)] \in CloseBrackets
    /\ \A i \in 2..(Len(t) - 1) : t[i] # "\n"

is_non_speech(text) ==
    LET t == Strip(text)
    IN IF t = <<>> THEN FALSE
       ELSE IF FullyBracketed(t) THEN TRUE
       ELSE \E m \in Markers : Contains(Lower(t), m)

\* . ! ? and U+3002 U+FF01 U+FF1F
Terminators == {".", "!", "?", "U+3002", "U+FF01", "U+FF1F"}

\* re.split(r"(?<=[.!?...])\s+", t)
RECURSIVE SplitSentences(_)
SplitSentences(t) ==
    LET cuts == {i \in 2..Len(t) : IsSpace(t[i]) /\ t[i - 1] \in Terminators}
    IN IF cuts = {} THEN <<t>>
       ELSE LET i == CHOOSE j \in cuts : \A k \in cuts : j <= k
            IN <<SubSeq(t, 1, i - 1)>>
                 \o SplitSentences(LStrip(SubSeq(t, i, Len(t))))

sentence_count(text) ==
    LET parts == SplitSentences(Strip(text))
        kept == {i \in 1..Len(parts) : Strip(parts[i]) # <<>>}
    IN Max(1, Cardinality(kept))

----------------------------------------------------------------------------
(* build_chapters *)

STR_Chapter == <<"C", "h", "a", "p", "t", "e", "r">>
STR_Transcript == <<"T", "r", "a", "n", "s", "c", "r", "i", "p", "t">>

\* str.splitlines(), for the line break "\n"
RECURSIVE SplitLines(_)
SplitLines(s) ==
    IF s = <<>> THEN <<>>
    ELSE LET breaks == {i \in 1..Len(s) : s[i] = "\n"}
         IN IF breaks = {} THEN <<s>>
            ELSE LET i == CHOOSE j \in breaks : \A k \in breaks : j <= k
                 IN <<SubSeq(s, 1, i - 1)>> \o SplitLines(SubSeq(s, i + 1, Len(s)))

\* the dash class of the pattern: U+2013 and -
Dashes == {"U+2013", "-"}

\* The tail of the pattern, \s*[dash]?\s*(.+?)\s*$, matched against r with the
\* re module's backtracking order.  [ok |-> whether it matches, title |-> group 4]
MatchTitle(r) ==
    LET a == LStrip(r)
        hasDash == a # <<>> /\ a[1] \in Dashes
        b == IF hasDash THEN Tail(a) ELSE a
        t == LStrip(b)
    IN IF t # <<>> THEN [ok |-> TRUE, title |-> RStrip(t)]
       ELSE IF hasDash /\ b # <<>> THEN [ok |-> TRUE, title |-> <<b[Len(b)]>>]
       ELSE IF hasDash THEN [ok |-> TRUE, title |-> <<a[1]>>]
       ELSE IF r # <<>> THEN [ok |-> TRUE, title |-> <<r[Len(r)]>>]
       ELSE [ok |-> FALSE, title |-> <<>>]

NoMatch == [ok |-> FALSE, start |-> 0, title |-> <<>>]

\* re.match of the chapter-line pattern and the computation of start (in
\* seconds) from its groups; title is group 4
MatchChapterLine(line) ==
    LET l == LStrip(line)
        n1 == IF Len(l) >= 2 /\ IsDigit(l[1]) /\ l[2] = ":" THEN 1
              ELSE IF Len(l) >= 3 /\ IsDigit(l[1]) /\ IsDigit(l[2]) /\ l[3] = ":" THEN 2
              ELSE 0
    IN IF n1 = 0 \/ Len(l) < n1 + 3 THEN NoMatch
       ELSE IF ~(IsDigit(l[n1 + 2]) /\ IsDigit(l[n1 + 3])) THEN NoMatch
       ELSE
         LET g1 == ParseNat(SubSeq(l, 1, n1))
             g2 == ParseNat(SubSeq(l, n1 + 2, n1 + 3))
             r == SubSeq(l, n1 + 4, Len(l))
             has3 == Len(r) >= 3 /\ r[1] = ":" /\ IsDigit(r[2]) /\ IsDigit(r[3])
             r3 == IF has3 THEN SubSeq(r, 4, Len(r)) ELSE <<>>
             t3 == MatchTitle(r3)
             t2 == MatchTitle(r)
         IN IF has3 /\ t3.ok
            THEN [ok |-> TRUE, title |-> t3.title,
                  start |-> g1 * 3600 + g2 * 60 + ParseNat(SubSeq(r, 2, 3))]
            ELSE IF t2.ok
            THEN [ok |-> TRUE, title |-> t2.title, start |-> g1 * 60 + g2]
            ELSE NoMatch

\* the loop over desc.splitlines(): the chapters parsed, in line order
RECURSIVE ParsedChapters(_)
ParsedChapters(lines) ==
    IF lines = <<>> THEN <<>>
    ELSE LET m == MatchChapterLine(lines[1])
             title == Strip(m.title)
         IN (IF m.ok /\ title # <<>>
             THEN <<[start |-> m.start * Resolution, title |-> title]>>
             ELSE <<>>) \o ParsedChapters(Tail(lines))

\* one chapter per metadata marker, a missing or empty title defaulted
MarkerChapters(ch) ==
    [i \in 1..Len(ch) |->
        [start |-> ch[i].start_time,
         title |-> IF ch[i].title # <<>> THEN ch[i].title ELSE STR_Chapter]]

\* build_chapters without its last return
build_chapters_no_fallback(m) ==
    IF m.chapters # <<>> THEN MarkerChapters(m.chapters)
    ELSE ParsedChapters(SplitLines(m.description))

build_chapters(m) ==
    IF m.chapters # <<>> THEN MarkerChapters(m.chapters)
    ELSE LET parsed == ParsedChapters(SplitLines(m.description))
         IN IF parsed # <<>> THEN parsed
            ELSE <<[start |-> 0, title |-> STR_Transcript]>>

----------------------------------------------------------------------------
(* chapter_for *)

\* the forward scan: idx advances while ts >= start, and stops at the first
\* chapter that starts after ts.  Indices are 0-based as in the program.
RECURSIVE ChapterScan(_, _, _, _)
ChapterScan(ts, chs, i, idx) ==
    IF i >= Len(chs) THEN idx
    ELSE IF ts >= chs[i + 1].start THEN ChapterScan(ts, chs, i + 1, i)
    ELSE idx

chapter_for(ts, chs) == ChapterScan(ts, chs, 0, 0)

----------------------------------------------------------------------------
(* render *)

STR_YouTubeTranscript == <<"Y", "o", "u", "T", "u", "b", "e", " ", "T", "r", "a", "n", "s", "c", "r", "i", "p", "t">>
STR_TableOfContents == <<"T", "a", "b", "l", "e", " ", "o", "f", " ", "C", "o", "n", "t", "e", "n", "t", "s">>
STR_NoTranscript == <<"[", "N", "o", " ", "t", "r", "a", "n", "s", "c", "r", "i", "p", "t", " ", "i", "n", " ", "t", "h", "i", "s", " ", "c", "h", "a", "p", "t", "e", "r", "]">>
STR_Speaker1 == <<"S", "p", "e", "a", "k", "e", "r", " ", "1">>

\* the sentence count at which the paragraph buffer is flushed
SentenceThreshold == 3

\* An element of `out`: the line appended (text), with the place of render
\* that appended it (kind), the chapter being rendered then (ch, -1 in the
\* header) and, for a paragraph, whether the speaker prefix was put before it.
Line(kind, ch, text) == [kind |-> kind, ch |-> ch, text |-> text, tagged |-> FALSE]

Blank(ch) == Line("blank", ch, <<>>)

\* flush_paragraph emitting only the first text of the buffer
flush_paragraph_first_text(o, speaker, b, lts, lab, ch) ==
    IF b = <<>> THEN [out |-> o, buf |-> b, labeled |-> lab]
    ELSE LET text == Strip(b[1])
             line == text \o <<" ">> \o hms(lts)
             full == IF ~lab THEN speaker \o <<":", " ">> \o line ELSE line
         IN [out |-> o \o <<[Line("para", ch, full) EXCEPT !.tagged = ~lab], Blank(ch)>>,
             buf |-> <<>>,
             labeled |-> TRUE]

\* flush_paragraph putting the speaker prefix before every paragraph
flush_paragraph_always_labels(o, speaker, b, lts, lab, ch) ==
    IF b = <<>> THEN [out |-> o, buf |-> b, labeled |-> lab]
    ELSE LET text == Strip(Join(<<" ">>, b))
             line == text \o <<" ">> \o hms(lts)
             full == speaker \o <<":", " ">> \o line
         IN [out |-> o \o <<[Line("para", ch, full) EXCEPT !.tagged = TRUE], Blank(ch)>>,
             buf |-> <<>>,
             labeled |-> TRUE]

\* flush_paragraph: out and buf are changed in place, labeled is returned
flush_paragraph(o, speaker, b, lts, lab, ch) ==
    IF b = <<>> THEN [out |-> o, buf |-> b, labeled |-> lab]
    ELSE LET text == Strip(Join(<<" ">>, b))
             line == text \o <<" ">> \o hms(lts)
             full == IF ~lab THEN speaker \o <<":", " ">> \o line ELSE line
         IN [out |-> o \o <<[Line("para", ch, full) EXCEPT !.tagged = ~lab], Blank(ch)>>,
             buf |-> <<>>,
             labeled |-> TRUE]

\* the grouping loop of render: bucket i holds, in transcript order, the rows
\* chapter_for sends to chapter i
GroupRows(chs, rows) ==
    [i \in 0..(Len(chs) - 1) |->
        SelectSeq(rows, LAMBDA r : chapter_for(r.start, chs) = i)]

Speaker(m) == IF m.uploader # <<>> THEN m.uploader ELSE STR_Speaker1

\* title, table of contents and the blank line before the first chapter
RenderHeader(m, chs) ==
    LET title == Strip(IF m.title # <<>> THEN m.title ELSE STR_YouTubeTranscript)
    IN <<Line("title", -1, title), Blank(-1),
         Line("toc_header", -1, STR_TableOfContents), Blank(-1)>>
       \o [i \in 1..Len(chs) |->
             Line("toc", -1, <<"*", " ">> \o hms(chs[i].start) \o <<" ">> \o chs[i].title)]
       \o <<Blank(-1)>>

\* the heading of chapter i (0-based) and the blank line after it
ChapterHeading(chs, i) ==
    <<Line("heading", i, hms(chs[i + 1].start) \o <<" ">> \o chs[i + 1].title), Blank(i)>>

\* the marker of an empty bucket with the timestamp of the first chapter
EmptyChapter_first_start(chs, i) ==
    <<Line("marker", i, STR_NoTranscript \o <<" ">> \o hms(chs[1].start) \o <<"\n">>),
      Blank(i)>>

\* the two lines of a chapter with an empty bucket
EmptyChapter(chs, i) ==
    <<Line("marker", i, STR_NoTranscript \o <<" ">> \o hms(chs[i + 1].start) \o <<"\n">>),
      Blank(i)>>

\* the local state of render at the start of a chapter with rows
ChapterLocals(o, chs, i) ==
    [out |-> o, buf |-> <<>>, buf_sentences |-> 0,
     last_ts |-> chs[i + 1].start, labeled |-> FALSE]

\* the loop over the rows with no flush before an event line
RowStep_event_no_flush(st, r, speaker, ch) ==
    LET text == clean_caption_text(ReplaceChar(r.text, "\n", <<" ">>))
    IN IF text = <<>> THEN st
       ELSE IF is_non_speech(text)
       THEN [st EXCEPT
               !.out = st.out \o <<Line("event", ch, <<"[">> \o text \o <<"]">>
                                                      \o <<" ">> \o hms(r.start)),
                                   Blank(ch)>>]
       ELSE LET b == Append(st.buf, text)
                n == st.buf_sentences + sentence_count(text)
            IN IF n >= SentenceThreshold
               THEN LET f == flush_paragraph(st.out, speaker, b, r.start, st.labeled, ch)
                    IN [out |-> f.out, buf |-> f.buf, buf_sentences |-> 0,
                        last_ts |-> r.start, labeled |-> f.labeled]
               ELSE [st EXCEPT !.buf = b, !.buf_sentences = n, !.last_ts = r.start]

\* the loop over the rows with last_ts left at the start of the chapter
RowStep_stale_last_ts(st, r, speaker, ch) ==
    LET text == clean_caption_text(ReplaceChar(r.text, "\n", <<" ">>))
    IN IF text = <<>> THEN st
       ELSE IF is_non_speech(text)
       THEN LET f == flush_paragraph(st.out, speaker, st.buf, st.last_ts, st.labeled, ch)
            IN [st EXCEPT
                  !.out = f.out \o <<Line("event", ch, <<"[">> \o text \o <<"]">>
                                                        \o <<" ">> \o hms(r.start)),
                                     Blank(ch)>>,
                  !.buf = f.buf,
                  !.labeled = f.labeled]
       ELSE LET b == Append(st.buf, text)
                n == st.buf_sentences + sentence_count(text)
            IN IF n >= SentenceThreshold
               THEN LET f == flush_paragraph(st.out, speaker, b, st.last_ts, st.labeled, ch)
                    IN [out |-> f.out, buf |-> f.buf, buf_sentences |-> 0,
                        last_ts |-> st.last_ts, labeled |-> f.labeled]
               ELSE [st EXCEPT !.buf = b, !.buf_sentences = n]

\* one iteration of the loop over the rows of a bucket
RowStep(st, r, speaker, ch) ==
    LET text == clean_caption_text(ReplaceChar(r.text, "\n", <<" ">>))
    IN IF text = <<>> THEN st
       ELSE IF is_non_speech(text)
       THEN LET f == flush_paragraph(st.out, speaker, st.buf, st.last_ts, st.labeled, ch)
                event == IF text[1] = "[" /\ text[Len(text)] = "]" THEN text
                         ELSE <<"[">> \o text \o <<"]">>
            IN [st EXCEPT
                  !.out = f.out \o <<Line("event", ch, event \o <<" ">> \o hms(r.start)),
                                     Blank(ch)>>,
                  !.buf = f.buf,
                  !.labeled = f.labeled]
       ELSE LET b == Append(st.buf, text)
                n == st.buf_sentences + sentence_count(text)
            IN IF n >= SentenceThreshold
               THEN LET f == flush_paragraph(st.out, speaker, b, r.start, st.labeled, ch)
                    IN [out |-> f.out, buf |-> f.buf, buf_sentences |-> 0,
                        last_ts |-> r.start, labeled |-> f.labeled]
               ELSE [st EXCEPT !.buf = b, !.buf_sentences = n, !.last_ts = r.start]

\* the flush after the last row of a bucket, and the blank line after it
ChapterClose(st, speaker, ch) ==
    LET f == flush_paragraph(st.out, speaker, st.buf, st.last_ts, st.labeled, ch)
    IN [st EXCEPT !.out = Append(f.out, Blank(ch)), !.buf = f.buf, !.labeled = f.labeled]

\* the lines joined without the rstrip
JoinDocument_no_rstrip(o) == Join(<<"\n">>, [i \in 1..Len(o) |-> o[i].text]) \o <<"\n">>

\* "\n".join(out).rstrip() + "\n"
JoinDocument(o) == RStrip(Join(<<"\n">>, [i \in 1..Len(o) |-> o[i].text])) \o <<"\n">>

RECURSIVE RenderRows(_, _, _, _)
RenderRows(st, rows, speaker, ch) ==
    IF rows = <<>> THEN st
    ELSE RenderRows(RowStep(st, rows[1], speaker, ch), Tail(rows), speaker, ch)

RECURSIVE RenderChapters(_, _, _, _, _)
RenderChapters(o, chs, g, speaker, i) ==
    IF i >= Len(chs) THEN o
    ELSE LET h == o \o ChapterHeading(chs, i)
         IN IF g[i] = <<>>
            THEN RenderChapters(h \o EmptyChapter(chs, i), chs, g, speaker, i + 1)
            ELSE RenderChapters(
                   ChapterClose(RenderRows(ChapterLocals(h, chs, i), g[i], speaker, i),
                                speaker, i).out,
                   chs, g, speaker, i + 1)

\* render as a function of its arguments
render(m, chs, rows) ==
    JoinDocument(RenderChapters(RenderHeader(m, chs), chs, GroupRows(chs, rows), Speaker(m), 0))

----------------------------------------------------------------------------
(* get_transcript, asr_fallback, render_with_gemini, main *)

STR_Provenance == <<"\n", "\n", "s", "o", "u", "r", "c", "e", ":", " ", "a", "s", "r", "-", "f", "a", "l", "l", "b", "a", "c", "k", "\n">>

\* an except clause that catches every exception of the captions provider
FallsBackToAsr_any(exc) == exc # "none"

\* the except clause of get_transcript: the exceptions that lead to the ASR fallback
FallsBackToAsr(exc) == exc \in {"NoTranscriptFound", "TranscriptsDisabled"}

\* the entries get_transcript builds from the fetched captions: text stripped,
\* entries with empty text dropped
CaptionEntries(items) ==
    SelectSeq([i \in 1..Len(items) |-> [start |-> items[i].start, text |-> Strip(items[i].text)]],
              LAMBDA e : e.text # <<>>)

\* the entries asr_fallback builds from the segments of the JSON artifact, after
\* the filter get_transcript applies to them
AsrEntries(segs) ==
    SelectSeq([i \in 1..Len(segs) |-> [start |-> segs[i].start, text |-> Strip(segs[i].text)]],
              LAMBDA e : e.text # <<>>)

\* ytdlp_attempts: without cookies, with the cookies of chrome, of safari
DownloadCommands == <<"plain", "chrome", "safari">>

\* the download loop without its break
DownloadStep_no_break(result) ==
    IF result = "ok" THEN [last_err |-> "none", stop |-> FALSE]
    ELSE [last_err |-> result, stop |-> FALSE]

\* one iteration of the download loop for a command that ended with `result`
\* ("ok" or "CalledProcessError"): the new last_err, and whether the loop breaks
DownloadStep(result) ==
    IF result = "ok" THEN [last_err |-> "none", stop |-> TRUE]
    ELSE [last_err |-> result, stop |-> FALSE]

\* a scratch directory removed only at the end of the with block
ScratchAfterExit_leak(how) == how = "raise"

\* tempfile.TemporaryDirectory as a context manager: whether the directory
\* still exists once the with block is left, by return or by raise
ScratchAfterExit(how) == FALSE

\* render_with_gemini without the check for empty output
GeminiResult_accepts_blank(g) ==
    IF ~g.found THEN [ok |-> FALSE, note |-> <<>>, error |-> "gemini CLI not found"]
    ELSE IF g.raised THEN [ok |-> FALSE, note |-> <<>>, error |-> "OSError"]
    ELSE IF g.returncode # 0
    THEN [ok |-> FALSE, note |-> <<>>, error |-> "gemini command failed"]
    ELSE [ok |-> TRUE, note |-> Strip(g.stdout) \o <<"\n">>, error |-> "none"]

\* render_with_gemini taking what the tool printed whatever its exit status
GeminiResult_keeps_partial(g) ==
    IF ~g.found THEN [ok |-> FALSE, note |-> <<>>, error |-> "gemini CLI not found"]
    ELSE IF g.raised THEN [ok |-> FALSE, note |-> <<>>, error |-> "OSError"]
    ELSE LET output == Strip(g.stdout)
         IN IF output = <<>>
            THEN [ok |-> FALSE, note |-> <<>>, error |-> "gemini returned empty output"]
            ELSE [ok |-> TRUE, note |-> output \o <<"\n">>, error |-> "none"]

\* render_with_gemini, given what the tool did: [found |-> which("gemini") found
\* it, raised |-> subprocess.run raised, returncode, stdout]
GeminiResult(g) ==
    IF ~g.found THEN [ok |-> FALSE, note |-> <<>>, error |-> "gemini CLI not found"]
    ELSE IF g.raised THEN [ok |-> FALSE, note |-> <<>>, error |-> "OSError"]
    ELSE IF g.returncode # 0
    THEN [ok |-> FALSE, note |-> <<>>, error |-> "gemini command failed"]
    ELSE LET output == Strip(g.stdout)
         IN IF output = <<>>
            THEN [ok |-> FALSE, note |-> <<>>, error |-> "gemini returned empty output"]
            ELSE [ok |-> TRUE, note |-> output \o <<"\n">>, error |-> "none"]

\* the provenance line after every document
AppendProvenance_always(n, source) == RStrip(n) \o STR_Provenance

\* main: the provenance line after the document of an ASR transcript
AppendProvenance(n, source) ==
    IF source = "asr-fallback" THEN RStrip(n) \o STR_Provenance ELSE n

----------------------------------------------------------------------------
(* Inputs *)

\* longest transcript handed to render
MaxRows == 3
\* most lines of a description handed to build_chapters
MaxDescLines == 2

SeqsUpTo(S, n) == UNION {[1..k -> S] : k \in 0..n}

\* hms: offsets (in ticks) around zero, the minute, the hour, the day and
\* the hundredth hour
HmsBases == {0, 59, 60, 3599, 3600, 86400, 359999, 360000, 363661}
HmsInputs ==
    UNION {((b * Resolution) - HmsSpread)..((b * Resolution) + HmsSpread) : b \in HmsBases}

\* description lines: with and without a dash, with hours, with nothing or
\* only spaces or only a dash after the time, and lines that are no chapter
DescLines == {
    <<"0", ":", "0", "1", " ", "A">>,
    <<"0", ":", "0", "2", " ", "-", " ", "B">>,
    <<" ", "0", "1", ":", "0", "0", ":", "0", "5", " ", "C", " ">>,
    <<"1", ":", "3", "0", ":", "4", "5">>,
    <<"0", ":", "0", "5", " ", " ">>,
    <<"0", ":", "0", "3", "-">>,
    <<"1", "2", ":", "3", " ", "x">>,
    <<"S", "e", "e", " ", "0", ":", "0", "1">> }

Descriptions == {Join(<<"\n">>, ls) : ls \in SeqsUpTo(DescLines, MaxDescLines)}

\* metadata chapter markers: none, ascending, descending, one without a title
MarkerLists == {
    <<>>,
    <<[start_time |-> 0, title |-> <<"A">>], [start_time |-> 2, title |-> <<"B">>]>>,
    <<[start_time |-> 3, title |-> <<"A">>], [start_time |-> 1, title |-> <<"B">>]>>,
    <<[start_time |-> 0, title |-> <<>>]>> }

ChapterMetas ==
    {[chapters |-> c, description |-> d, uploader |-> <<>>, title |-> <<"T">>] :
        c \in MarkerLists, d \in Descriptions}

\* render: no chapter source; two markers in ascending order, the second
\* without a title; a description whose lines are not in time order
RenderMetas == {
    [chapters |-> <<>>, description |-> <<>>, uploader |-> <<>>, title |-> <<>>],
    [chapters |-> <<[start_time |-> 0, title |-> <<"A">>],
                    [start_time |-> 2, title |-> <<>>]>>,
     description |-> <<>>, uploader |-> <<"U">>, title |-> <<"T">>],
    [chapters |-> <<>>,
     description |-> <<"0", ":", "0", "2", " ", "B", "\n", "0", ":", "0", "1", " ", "A">>,
     uploader |-> <<>>, title |-> <<"T">>] }

\* utterance texts: one sentence; two sentences over two lines; an event;
\* brackets around nothing; brackets around a word that is no marker
Texts == {
    <<"H", "i", ".">>,
    <<">", ">", " ", "Y", "e", "s", ".", "\n", "N", "o", "!">>,
    <<"[", "M", "u", "s", "i", "c", "]">>,
    <<"[", "]">>,
    <<"[", "f", "o", "o", "]">> }

\* utterance starts, in ticks
Starts == {1, 3}

Utterances == {[start |-> s, text |-> t] : s \in Starts, t \in Texts}

\* the captions provider and the ASR tool both list their segments in time order
Transcripts ==
    {t \in SeqsUpTo(Utterances, MaxRows) :
        \A i \in 1..(Len(t) - 1) : t[i].start <= t[i + 1].start}

\* the style prompt file: absent or empty, blank, with text
PromptTexts == {<<>>, <<" ">>, <<"3", " ", "s", "e", "n", "t", "e", "n", "c", "e", "s">>}

\* what the captions provider returns: items, some with blank text
CaptionLists == {
    <<>>,
    <<[start |-> 1, text |-> <<" ", "H", "i", ".", " ">>], [start |-> 3, text |-> <<" ">>]>>,
    <<[start |-> 1, text |-> <<">", ">", " ", "Y", "e", "s", ".", "\n", "N", "o", "!">>],
      [start |-> 3, text |-> <<"[", "M", "u", "s", "i", "c", "]">>],
      [start |-> 3, text |-> <<"[", "]">>]>> }

\* what api.fetch does: returns items, or raises
CaptionOutcomes ==
    {[exc |-> "none", items |-> l] : l \in CaptionLists}
    \cup {[exc |-> e, items |-> <<>>] :
            e \in {"NoTranscriptFound", "TranscriptsDisabled", "VideoUnavailable"}}

\* the JSON artifact of the transcription tool: missing, unreadable, or segments
SegmentLists == {
    <<>>,
    <<[start |-> 0, text |-> <<>>], [start |-> 3, text |-> <<" ", "H", "i", ".">>]>> }

Artifacts ==
    {[state |-> "missing", segments |-> <<>>], [state |-> "unreadable", segments |-> <<>>]}
    \cup {[state |-> "json", segments |-> l] : l \in SegmentLists}

\* before render_with_gemini is called
NoGemini ==
    [called |-> FALSE, found |-> FALSE, raised |-> FALSE, returncode |-> 0, stdout |-> <<>>]

\* what the LLM tool does: absent; not startable; non-zero exit, with text on
\* stdout; exit 0 with nothing, with blanks, with a document
GeminiOutcomes == {
    [called |-> TRUE, found |-> FALSE, raised |-> FALSE, returncode |-> 0, stdout |-> <<>>],
    [called |-> TRUE, found |-> TRUE, raised |-> TRUE, returncode |-> 0, stdout |-> <<>>],
    [called |-> TRUE, found |-> TRUE, raised |-> FALSE, returncode |-> 1, stdout |-> <<"T", "\n", "\n", "H", "i">>],
    [called |-> TRUE, found |-> TRUE, raised |-> FALSE, returncode |-> 0, stdout |-> <<>>],
    [called |-> TRUE, found |-> TRUE, raised |-> FALSE, returncode |-> 0, stdout |-> <<" ", "\n">>],
    [called |-> TRUE, found |-> TRUE, raised |-> FALSE, returncode |-> 0,
     stdout |->
       <<"T", "\n", "\n", "[", "0", "0", ":", "0", "0", ":", "0", "0", "]", " ", "A", "\n", "\n", "U", ":", " ", "H", "i", ".", " ", "[", "0", "0", ":", "0", "0", ":", "0", "0", "]", "\n", "\n">>] }

----------------------------------------------------------------------------
(* Initial states *)

NoMeta == [chapters |-> <<>>, description |-> <<>>, uploader |-> <<>>, title |-> <<>>]

HmsIdle == hmsIn = 0 /\ hmsOut = <<>>

RenderIdle ==
    /\ chapters = <<>>
    /\ grouped = <<>>
    /\ out = <<>>
    /\ ci = 0
    /\ ri = 0
    /\ buf = <<>>
    /\ buf_sentences = 0
    /\ last_ts = 0
    /\ labeled = FALSE
    /\ doc = <<>>

MainIdle ==
    /\ prompt_text = <<>>
    /\ captions = "pending"
    /\ transcript_source = "none"
    /\ asr_calls = 0
    /\ ffmpeg = "unknown"
    /\ tmp = FALSE
    /\ tmp_created = 0
    /\ attempt = 0
    /\ last_err = "none"
    /\ tried = <<>>
    /\ whisper_runs = 0
    /\ gemini = NoGemini
    /\ gemini_runs = 0
    /\ error = "none"
    /\ note = <<>>

\* hms about to be called on one of HmsInputs
InitHms ==
    /\ pc = "hms"
    /\ hmsIn \in HmsInputs
    /\ hmsOut = <<>>
    /\ meta = NoMeta
    /\ transcript = <<>>
    /\ RenderIdle
    /\ MainIdle

\* build_chapters about to be called on one of ChapterMetas
InitChapters ==
    /\ pc = "build_chapters"
    /\ meta \in ChapterMetas
    /\ transcript = <<>>
    /\ HmsIdle
    /\ RenderIdle
    /\ MainIdle

\* main after get_transcript returned captions, with no style prompt: before
\* build_chapters and render
InitRender ==
    /\ pc = "build_chapters"
    /\ meta \in RenderMetas
    /\ transcript \in Transcripts
    /\ HmsIdle
    /\ RenderIdle
    /\ prompt_text = <<>>
    /\ captions = "ok"
    /\ transcript_source = "youtube-subtitles"
    /\ asr_calls = 0
    /\ ffmpeg = "unknown"
    /\ tmp = FALSE
    /\ tmp_created = 0
    /\ attempt = 0
    /\ last_err = "none"
    /\ tried = <<>>
    /\ whisper_runs = 0
    /\ gemini = NoGemini
    /\ gemini_runs = 0
    /\ error = "none"
    /\ note = <<>>

\* main after get_metadata, before the prompt file is read
InitMain ==
    /\ pc = "main"
    /\ meta \in RenderMetas
    /\ transcript = <<>>
    /\ HmsIdle
    /\ RenderIdle
    /\ MainIdle

----------------------------------------------------------------------------
(* Actions *)

CallHms ==
    /\ pc = "hms"
    /\ hmsOut' = hms(hmsIn)
    /\ pc' = "hms_done"
    /\ UNCHANGED <<hmsIn, inputVars, renderVars, mainVars>>

\* main: chapters = build_chapters(meta)
BuildChapters ==
    /\ pc = "build_chapters"
    /\ chapters' = build_chapters(meta)
    /\ pc' = "format"
    /\ UNCHANGED <<hmsVars, inputVars, mainVars, grouped, out, ci, ri, buf, buf_sentences,
                   last_ts, labeled, doc>>

\* main calls render (no style prompt); render, up to the loop over the chapters
RenderStart ==
    /\ pc = "format"
    /\ prompt_text = <<>>
    /\ grouped' = GroupRows(chapters, transcript)
    /\ out' = RenderHeader(meta, chapters)
    /\ ci' = 0
    /\ pc' = "chapter"
    /\ UNCHANGED <<hmsVars, inputVars, mainVars, chapters, ri, buf, buf_sentences, last_ts,
                   labeled, doc>>

\* render: the start of an iteration of the loop over the chapters
ChapterStart ==
    /\ pc = "chapter"
    /\ ci < Len(chapters)
    /\ IF grouped[ci] = <<>>
       THEN /\ out' = out \o ChapterHeading(chapters, ci) \o EmptyChapter(chapters, ci)
            /\ ci' = ci + 1
            /\ pc' = "chapter"
            /\ UNCHANGED <<ri, buf, buf_sentences, last_ts, labeled>>
       ELSE LET st == ChapterLocals(out \o ChapterHeading(chapters, ci), chapters, ci)
            IN /\ out' = st.out
               /\ buf' = st.buf
               /\ buf_sentences' = st.buf_sentences
               /\ last_ts' = st.last_ts
               /\ labeled' = st.labeled
               /\ ri' = 0
               /\ pc' = "rows"
               /\ UNCHANGED ci
    /\ UNCHANGED <<hmsVars, inputVars, mainVars, chapters, grouped, doc>>

RenderLocals ==
    [out |-> out, buf |-> buf, buf_sentences |-> buf_sentences,
     last_ts |-> last_ts, labeled |-> labeled]

\* render: one iteration of the loop over the rows of the chapter's bucket
ProcessRow ==
    /\ pc = "rows"
    /\ ri < Len(grouped[ci])
    /\ LET st == RowStep(RenderLocals, grouped[ci][ri + 1], Speaker(meta), ci)
       IN /\ out' = st.out
          /\ buf' = st.buf
          /\ buf_sentences' = st.buf_sentences
          /\ last_ts' = st.last_ts
          /\ labeled' = st.labeled
    /\ ri' = ri + 1
    /\ UNCHANGED <<pc, hmsVars, inputVars, mainVars, chapters, grouped, ci, doc>>

\* render: after the last row of the bucket
ChapterEnd ==
    /\ pc = "rows"
    /\ ri = Len(grouped[ci])
    /\ LET st == ChapterClose(RenderLocals, Speaker(meta), ci)
       IN /\ out' = st.out
          /\ buf' = st.buf
          /\ labeled' = st.labeled
    /\ ci' = ci + 1
    /\ pc' = "chapter"
    /\ UNCHANGED <<hmsVars, inputVars, mainVars, chapters, grouped, ri, buf_sentences, last_ts, doc>>

\* render: the return statement
RenderReturn ==
    /\ pc = "chapter"
    /\ ci = Len(chapters)
    /\ doc' = JoinDocument(out)
    /\ pc' = "rendered"
    /\ UNCHANGED <<hmsVars, inputVars, mainVars, chapters, grouped, out, ci, ri, buf,
                   buf_sentences, last_ts, labeled>>

\* main: the style prompt file is read when it exists
ReadPrompt ==
    /\ pc = "main"
    /\ prompt_text' \in PromptTexts
    /\ pc' = "get_transcript"
    /\ UNCHANGED <<hmsVars, inputVars, renderVars, acquireVars, formatVars, error>>

\* get_transcript, up to its return or to the call of asr_fallback
FetchCaptions ==
    /\ pc = "get_transcript"
    /\ \E res \in CaptionOutcomes :
        IF res.exc = "none"
        THEN /\ captions' = "ok"
             /\ transcript' = CaptionEntries(res.items)
             /\ transcript_source' = "youtube-subtitles"
             /\ pc' = "build_chapters"
             /\ UNCHANGED <<asr_calls, error>>
        ELSE IF FallsBackToAsr(res.exc)
        THEN /\ captions' = res.exc
             /\ asr_calls' = asr_calls + 1
             /\ pc' = "asr_fallback"
             /\ UNCHANGED <<transcript, transcript_source, error>>
        ELSE /\ captions' = res.exc
             /\ error' = res.exc
             /\ pc' = "failed"
             /\ UNCHANGED <<transcript, transcript_source, asr_calls>>
    /\ UNCHANGED <<hmsVars, meta, renderVars, prompt_text, ffmpeg, tmp, tmp_created,
                   attempt, last_err, tried, whisper_runs, formatVars>>

\* asr_fallback, up to the download loop
AsrStart ==
    /\ pc = "asr_fallback"
    /\ \E found \in BOOLEAN :
        IF found
        THEN /\ ffmpeg' = "found"
             /\ tmp' = TRUE
             /\ tmp_created' = tmp_created + 1
             /\ attempt' = 0
             /\ last_err' = "none"
             /\ pc' = "download"
             /\ UNCHANGED error
        ELSE /\ ffmpeg' = "missing"
             /\ error' = "ffmpeg not found; cannot run ASR fallback"
             /\ pc' = "failed"
             /\ UNCHANGED <<tmp, tmp_created, attempt, last_err>>
    /\ UNCHANGED <<hmsVars, inputVars, renderVars, prompt_text, captions,
                   transcript_source, asr_calls, tried, whisper_runs, formatVars>>

\* asr_fallback: one iteration of the download loop
AsrDownload ==
    /\ pc = "download"
    /\ attempt < Len(DownloadCommands)
    /\ \E result \in {"ok", "CalledProcessError", "OSError"} :
        /\ tried' = Append(tried, [cmd |-> DownloadCommands[attempt + 1], result |-> result])
        /\ IF result = "OSError"
           THEN /\ tmp' = ScratchAfterExit("raise")
                /\ error' = "OSError"
                /\ pc' = "failed"
                /\ UNCHANGED <<attempt, last_err>>
           ELSE LET st == DownloadStep(result)
                IN /\ last_err' = st.last_err
                   /\ attempt' = IF st.stop THEN attempt ELSE attempt + 1
                   /\ pc' = IF st.stop \/ attempt + 1 = Len(DownloadCommands)
                            THEN "downloaded" ELSE "download"
                   /\ UNCHANGED <<tmp, error>>
    /\ UNCHANGED <<hmsVars, inputVars, renderVars, prompt_text, captions,
                   transcript_source, asr_calls, ffmpeg, tmp_created, whisper_runs,
                   formatVars>>

\* asr_fallback: after the download loop, up to the run of the transcription tool
AsrFindAudio ==
    /\ pc = "downloaded"
    /\ IF last_err # "none"
       THEN /\ tmp' = ScratchAfterExit("raise")
            /\ error' = "yt-dlp could not download audio (403/cookies issue)"
            /\ pc' = "failed"
       ELSE \E audio \in BOOLEAN :
            IF audio
            THEN /\ pc' = "whisper"
                 /\ UNCHANGED <<tmp, error>>
            ELSE /\ tmp' = ScratchAfterExit("raise")
                 /\ error' = "failed to download audio for ASR"
                 /\ pc' = "failed"
    /\ UNCHANGED <<hmsVars, inputVars, renderVars, prompt_text, captions,
                   transcript_source, asr_calls, ffmpeg, tmp_created, attempt, last_err,
                   tried, whisper_runs, formatVars>>

\* asr_fallback: the run of the transcription tool
AsrTranscribe ==
    /\ pc = "whisper"
    /\ whisper_runs' = whisper_runs + 1
    /\ \E result \in {"ok", "CalledProcessError"} :
        IF result = "ok"
        THEN /\ pc' = "read_json"
             /\ UNCHANGED <<tmp, error>>
        ELSE /\ tmp' = ScratchAfterExit("raise")
             /\ error' = "CalledProcessError"
             /\ pc' = "failed"
    /\ UNCHANGED <<hmsVars, inputVars, renderVars, prompt_text, captions,
                   transcript_source, asr_calls, ffmpeg, tmp_created, attempt, last_err,
                   tried, formatVars>>

\* asr_fallback: the JSON artifact is read and the entries returned; get_transcript
\* filters them and returns
AsrReadSegments ==
    /\ pc = "read_json"
    /\ \E art \in Artifacts :
        IF art.state = "json"
        THEN /\ tmp' = ScratchAfterExit("return")
             /\ transcript' = AsrEntries(art.segments)
             /\ transcript_source' = "asr-fallback"
             /\ pc' = "build_chapters"
             /\ UNCHANGED error
        ELSE /\ tmp' = ScratchAfterExit("raise")
             /\ error' = IF art.state = "missing"
                         THEN "whisper did not produce json output"
                         ELSE "JSONDecodeError"
             /\ pc' = "failed"
             /\ UNCHANGED <<transcript, transcript_source>>
    /\ UNCHANGED <<hmsVars, meta, renderVars, prompt_text, captions, asr_calls, ffmpeg,
                   tmp_created, attempt, last_err, tried, whisper_runs, formatVars>>

\* main: render_with_gemini is called (a style prompt was read)
CallGemini ==
    /\ pc = "format"
    /\ prompt_text # <<>>
    /\ \E g \in GeminiOutcomes :
        /\ gemini' = g
        /\ gemini_runs' = IF g.found THEN gemini_runs + 1 ELSE gemini_runs
        /\ IF GeminiResult(g).ok
           THEN /\ note' = GeminiResult(g).note
                /\ pc' = "provenance"
           ELSE /\ pc' = "fallback"
                /\ UNCHANGED note
    /\ UNCHANGED <<hmsVars, inputVars, renderVars, prompt_text, acquireVars, error>>

\* main: the except branch, the local renderer after a failed LLM pass
FallbackRender ==
    /\ pc = "fallback"
    /\ note' = render(meta, chapters, transcript)
    /\ pc' = "provenance"
    /\ UNCHANGED <<hmsVars, inputVars, renderVars, prompt_text, acquireVars, gemini,
                   gemini_runs, error>>

\* main: render is called (no style prompt), as one step
LocalRender ==
    /\ pc = "format"
    /\ prompt_text = <<>>
    /\ note' = render(meta, chapters, transcript)
    /\ pc' = "provenance"
    /\ UNCHANGED <<hmsVars, inputVars, renderVars, prompt_text, acquireVars, gemini,
                   gemini_runs, error>>

\* main: the provenance line, and the document is written
Finish ==
    /\ pc = "provenance"
    /\ note' = AppendProvenance(note, transcript_source)
    /\ pc' = "done"
    /\ UNCHANGED <<hmsVars, inputVars, renderVars, prompt_text, acquireVars, gemini,
                   gemini_runs, error>>

----------------------------------------------------------------------------
(* Specifications *)

NextHms == CallHms

NextChapters == BuildChapters

NextRender ==
    \/ BuildChapters
    \/ RenderStart
    \/ ChapterStart
    \/ ProcessRow
    \/ ChapterEnd
    \/ RenderReturn

NextMain ==
    \/ ReadPrompt
    \/ FetchCaptions
    \/ AsrStart
    \/ AsrDownload
    \/ AsrFindAudio
    \/ AsrTranscribe
    \/ AsrReadSegments
    \/ BuildChapters
    \/ CallGemini
    \/ FallbackRender
    \/ LocalRender
    \/ Finish

\* hms applied to each of HmsInputs
SpecHms == InitHms /\ [][NextHms]_vars

\* build_chapters applied to each of ChapterMetas
SpecChapters == InitChapters /\ [][NextChapters]_vars

\* build_chapters, then render, statement by statement
SpecRender == InitRender /\ [][NextRender]_vars

\* main, from the prompt file to the written document, render as one step
SpecMain == InitMain /\ [][NextMain]_vars

----------------------------------------------------------------------------
(* Claims *)

Count(seq, x) == Cardinality({i \in 1..Len(seq) : seq[i] = x})

EndsWith(s, suffix) ==
    Len(s) >= Len(suffix) /\ SubSeq(s, Len(s) - Len(suffix) + 1, Len(s)) = suffix

\* the positions <<bucket, index>> of the buckets of render
BucketPositions ==
    UNION {{<<i, k>> : k \in 1..Len(grouped[i])} : i \in DOMAIN grouped}

\* chapter i (0-based) has the greatest start <= t among all chapters, or is
\* chapter 0 when no chapter starts at or before t
LatestChapter(t, i) ==
    IF \E j \in 1..Len(chapters) : chapters[j].start <= t
    THEN /\ chapters[i + 1].start <= t
         /\ \A j \in 1..Len(chapters) :
               chapters[j].start <= t => chapters[j].start <= chapters[i + 1].start
    ELSE i = 0

\* C1: once render has grouped the transcript, every utterance is in exactly
\* one chapter bucket, and that bucket is the chapter with the greatest start
\* <= the utterance's start among all chapters of the list (bucket 0 when no
\* chapter starts at or before it).
C1_UtteranceInLatestChapter ==
    pc \in {"chapter", "rows", "rendered"} =>
        /\ \A k \in 1..Len(transcript) :
              Cardinality({p \in BucketPositions : grouped[p[1]][p[2]] = transcript[k]})
                = Count(transcript, transcript[k])
        /\ \A p \in BucketPositions : LatestChapter(grouped[p[1]][p[2]].start, p[1])

\* C2: the ASR fallback is started if and only if the captions provider raised
\* "no transcript found" or "transcripts disabled"; when captions succeed
\* nothing of the ASR path runs; any other captions error ends the run with
\* that error, with no ASR attempt and no (utterances, tag) result.
C2_AsrOnlyAfterMissingCaptions ==
    /\ asr_calls > 0 <=> captions \in {"NoTranscriptFound", "TranscriptsDisabled"}
    /\ captions = "ok" =>
          /\ asr_calls = 0 /\ ffmpeg = "unknown" /\ tmp_created = 0
          /\ tried = <<>> /\ whisper_runs = 0
    /\ captions \notin {"pending", "ok", "NoTranscriptFound", "TranscriptsDisabled"} =>
          /\ pc = "failed" /\ error = captions
          /\ asr_calls = 0 /\ ffmpeg = "unknown" /\ tmp_created = 0
          /\ transcript_source = "none" /\ transcript = <<>> /\ note = <<>>

C2_Witness ==
    /\ captions = "TranscriptsDisabled"
    /\ asr_calls = 1
    /\ whisper_runs = 1
    /\ transcript_source = "asr-fallback"

\* the LLM pass was attempted and failed: the tool is absent, could not be run,
\* exited with a non-zero status, or printed nothing but blanks
LlmFailed ==
    /\ gemini.called
    /\ \/ ~gemini.found
       \/ gemini.raised
       \/ gemini.returncode # 0
       \/ AllSpace(gemini.stdout)

\* C3: when the LLM pass is attempted and fails, the run does not fail, and
\* the body of the document is exactly what render returns for the same
\* metadata, chapters and utterances (before and after the provenance line is
\* put after it); the document is not empty.
C3_FailedReformatFallsBack ==
    LlmFailed =>
        /\ error = "none"
        /\ pc \in {"fallback", "provenance", "done"}
        /\ pc = "provenance" => note = render(meta, chapters, transcript)
        /\ pc = "done" =>
              /\ note # <<>>
              /\ \/ note = render(meta, chapters, transcript)
                 \/ note = RStrip(render(meta, chapters, transcript)) \o STR_Provenance

C3_Witness ==
    /\ pc = "done"
    /\ gemini.called /\ gemini.found /\ gemini.returncode = 1
    /\ note = render(meta, chapters, transcript)

\* C4: the scratch directory exists only while asr_fallback is running (from
\* the download loop to the reading of the artifact): it is gone whenever the
\* call has returned or raised, and none is created without an ffmpeg
\* executable.
C4_ScratchOnlyDuringAsr ==
    /\ tmp => pc \in {"download", "downloaded", "whisper", "read_json"}
    /\ ffmpeg = "missing" => tmp_created = 0
    /\ tmp_created > 0 => ffmpeg = "found"

C4_Witness ==
    /\ pc = "failed"
    /\ tmp_created = 1
    /\ whisper_runs = 1
    /\ ~tmp

\* the text of a dialogue paragraph line: the line without the speaker prefix
\* and without the timestamp that ends it
ParagraphText(l, speaker) ==
    LET body == IF l.tagged THEN SubSeq(l.text, Len(speaker) + 3, Len(l.text)) ELSE l.text
        cut == CHOOSE i \in 1..Len(body) :
                  body[i] = "[" /\ \A j \in (i + 1)..Len(body) : body[j] # "["
    IN SubSeq(body, 1, cut - 2)

ParagraphLines(i) == SelectSeq(out, LAMBDA l : l.kind = "para" /\ l.ch = i)

ParagraphTexts(i) ==
    [k \in 1..Len(ParagraphLines(i)) |-> ParagraphText(ParagraphLines(i)[k], Speaker(meta))]

\* the cleaned texts of the utterances of chapter i that render takes for
\* speech, in transcript order
SpeechTexts(i) ==
    LET rows == SelectSeq(transcript, LAMBDA r : chapter_for(r.start, chapters) = i)
        cleaned == [k \in 1..Len(rows) |-> clean_caption_text(rows[k].text)]
    IN SelectSeq(cleaned, LAMBDA t : t # <<>> /\ ~is_non_speech(t))

\* C5: in the rendered document, for every chapter, the texts of the dialogue
\* paragraphs of its section, concatenated in output order, are the cleaned
\* texts of the speech utterances assigned to that chapter, concatenated in
\* transcript order.
C5_ParagraphsKeepSpeech ==
    pc = "rendered" =>
        \A i \in 0..(Len(chapters) - 1) :
            Join(<<" ">>, ParagraphTexts(i)) = Join(<<" ">>, SpeechTexts(i))

C5_Witness ==
    /\ pc = "rendered"
    /\ \E i \in 0..(Len(chapters) - 1) :
          /\ Len(ParagraphLines(i)) >= 2
          /\ Len(SpeechTexts(i)) >= 2
          /\ \E k \in 1..Len(out) : out[k].kind = "event" /\ out[k].ch = i

STR_ProvenanceLine == <<"\n", "s", "o", "u", "r", "c", "e", ":", " ", "a", "s", "r", "-", "f", "a", "l", "l", "b", "a", "c", "k", "\n">>

C7_ChaptersAscending ==
    pc = "format" =>
        \A i \in 1..(Len(chapters) - 1) : chapters[i].start <= chapters[i + 1].start

\* the lines of the description that match the chapter pattern with a title
\* that is not empty
ChapterLines(m) ==
    SelectSeq(SplitLines(m.description),
              LAMBDA l : MatchChapterLine(l).ok /\ Strip(MatchChapterLine(l).title) # <<>>)

\* C8: build_chapters never returns an empty list: with markers, one chapter
\* per marker; else with description lines that parse with a title, one
\* chapter per such line; else exactly the one chapter {0.0, "Transcript"}.
C8_ChaptersNeverEmpty ==
    pc = "format" =>
        /\ chapters # <<>>
        /\ meta.chapters # <<>> =>
              /\ Len(chapters) = Len(meta.chapters)
              /\ \A i \in 1..Len(chapters) : chapters[i].start = meta.chapters[i].start_time
        /\ (meta.chapters = <<>> /\ ChapterLines(meta) # <<>>) =>
              /\ Len(chapters) = Len(ChapterLines(meta))
              /\ \A i \in 1..Len(chapters) :
                    /\ chapters[i].start
                         = MatchChapterLine(ChapterLines(meta)[i]).start * Resolution
                    /\ chapters[i].title = Strip(MatchChapterLine(ChapterLines(meta)[i]).title)
        /\ (meta.chapters = <<>> /\ ChapterLines(meta) = <<>>) =>
              chapters = <<[start |-> 0, title |-> STR_Transcript]>>

\* a description with a line that matches the pattern but has no title, and
\* no chapter line: the synthetic chapter is returned
C8_Witness ==
    /\ pc = "format"
    /\ meta.chapters = <<>>
    /\ \E i \in 1..Len(SplitLines(meta.description)) :
          MatchChapterLine(SplitLines(meta.description)[i]).ok
    /\ chapters = <<[start |-> 0, title |-> STR_Transcript]>>

\* s.split(c)
RECURSIVE SplitOn(_, _)
SplitOn(s, c) ==
    LET at == {i \in 1..Len(s) : s[i] = c}
    IN IF at = {} THEN <<s>>
       ELSE LET i == CHOOSE j \in at : \A k \in at : j <= k
            IN <<SubSeq(s, 1, i - 1)>> \o SplitOn(SubSeq(s, i + 1, Len(s)), c)

AllDigits(s) == s # <<>> /\ \A i \in 1..Len(s) : IsDigit(s[i])

\* the fields of a label [f1:f2:...], between its brackets
LabelFields(label) == SplitOn(SubSeq(label, 2, Len(label) - 1), ":")

\* the label is [H:M:S] with fields of digits
LabelShape(label) ==
    /\ Len(label) >= 2
    /\ label[1] = "[" /\ label[Len(label)] = "]"
    /\ Len(LabelFields(label)) = 3
    /\ \A i \in 1..3 : AllDigits(LabelFields(label)[i])

\* the label read back as hours * 3600 + minutes * 60 + seconds
LabelSeconds(label) ==
    ParseNat(LabelFields(label)[1]) * 3600
      + ParseNat(LabelFields(label)[2]) * 60
      + ParseNat(LabelFields(label)[3])

\* the offset (in ticks) truncated to whole seconds, a negative one taken as 0
TruncatedSeconds(t) == IF t < 0 THEN 0 ELSE t \div Resolution

\* C9 as stated: hms gives a label with exactly two digits in each of the
\* three fields that reads back as the offset truncated to whole seconds.
C9_TwoDigitFields ==
    pc = "hms_done" =>
        /\ LabelShape(hmsOut)
        /\ \A i \in 1..3 : Len(LabelFields(hmsOut)[i]) = 2
        /\ LabelSeconds(hmsOut) = TruncatedSeconds(hmsIn)

\* C9 amended: the label reads back as the offset truncated to whole seconds;
\* the minute and second fields have exactly two digits; the hour field has
\* exactly two digits below 100 hours and more from 100 hours on.
C9_LabelRoundTrip ==
    pc = "hms_done" =>
        /\ LabelShape(hmsOut)
        /\ Len(LabelFields(hmsOut)[2]) = 2
        /\ Len(LabelFields(hmsOut)[3]) = 2
        /\ IF TruncatedSeconds(hmsIn) < 360000
           THEN Len(LabelFields(hmsOut)[1]) = 2
           ELSE Len(LabelFields(hmsOut)[1]) > 2
        /\ LabelSeconds(hmsOut) = TruncatedSeconds(hmsIn)

\* an offset of 100 hours or more, with a fraction of a second
C9_Witness ==
    /\ pc = "hms_done"
    /\ TruncatedSeconds(hmsIn) >= 360000
    /\ hmsIn % Resolution # 0
    /\ LabelSeconds(hmsOut) = TruncatedSeconds(hmsIn)

AllDownloadsFailed ==
    /\ Len(tried) = 3
    /\ \A i \in 1..3 : tried[i].result = "CalledProcessError"

\* C10: the download commands are run in the order plain, chrome, safari; a
\* command is run only after every earlier one failed, none after one
\* succeeded; when all three failed asr_fallback raises the authorization
\* message and the transcription tool is never run.
C10_DownloadOrder ==
    /\ Len(tried) <= 3
    /\ \A i \in 1..Len(tried) : tried[i].cmd = <<"plain", "chrome", "safari">>[i]
    /\ \A i \in 1..(Len(tried) - 1) : tried[i].result = "CalledProcessError"
    /\ (AllDownloadsFailed /\ pc # "downloaded") =>
          /\ pc = "failed"
          /\ error = "yt-dlp could not download audio (403/cookies issue)"
    /\ AllDownloadsFailed => whisper_runs = 0
    /\ whisper_runs > 0 => (tried # <<>> /\ tried[Len(tried)].result = "ok")

C10_Witness ==
    /\ AllDownloadsFailed
    /\ pc = "failed"
    /\ whisper_runs = 0

\* the text ends with exactly one newline: it is not empty, its last character
\* is a newline and the character before it is not whitespace
EndsWithOneNewline(s) ==
    /\ Len(s) >= 2
    /\ s[Len(s)] = "\n"
    /\ ~IsSpace(s[Len(s) - 1])

\* C11: every document main produces ends with exactly one newline, whatever
\* path produced it: render, the LLM pass, and either of them followed by the
\* provenance line.
C11_DocumentEndsWithOneNewline ==
    pc \in {"provenance", "done"} => EndsWithOneNewline(note)

C11_Witness ==
    /\ pc = "done"
    /\ transcript_source = "asr-fallback"
    /\ ~gemini.called
    /\ \E k \in 1..Len(chapters) :
          \A r \in 1..Len(transcript) : chapter_for(transcript[r].start, chapters) # k - 1
    /\ EndsWith(note, STR_Provenance)

StartsWith(s, prefix) == Len(s) >= Len(prefix) /\ SubSeq(s, 1, Len(prefix)) = prefix

\* the lines of the section of chapter i (0-based) that are not blank
SectionLines(i) == SelectSeq(out, LAMBDA l : l.ch = i /\ l.kind # "blank")

SpeakerPrefix == Speaker(meta) \o <<":", " ">>

\* C12: in the rendered document the section of a chapter whose bucket is
\* empty is its heading followed by one line only, the marker
\* "[No transcript in this chapter]" with the timestamp of the chapter's own
\* start and no speaker prefix, and every later chapter is rendered too; the
\* section of a chapter whose bucket is not empty never has the marker.
C12_EmptyChapterMarker ==
    pc = "rendered" =>
        \A i \in 0..(Len(chapters) - 1) :
            LET sec == SectionLines(i)
            IN /\ sec # <<>>
               /\ sec[1].kind = "heading"
               /\ IF grouped[i] = <<>>
                  THEN /\ Len(sec) = 2
                       /\ Strip(sec[2].text)
                            = STR_NoTranscript \o <<" ">> \o hms(chapters[i + 1].start)
                       /\ ~sec[2].tagged
                       /\ ~StartsWith(sec[2].text, SpeakerPrefix)
                  ELSE \A k \in 1..Len(sec) : ~Contains(sec[k].text, STR_NoTranscript)

C12_Witness ==
    /\ pc = "rendered"
    /\ transcript = <<>>
    /\ Len(chapters) >= 2
    /\ \A i \in 0..(Len(chapters) - 1) : Len(SectionLines(i)) = 2

RECURSIVE SentencesIn(_)
\* the sum of sentence_count over the texts of a buffer
SentencesIn(b) == IF b = <<>> THEN 0 ELSE sentence_count(b[1]) + SentencesIn(Tail(b))

\* the cleaned text of an utterance, as the loop over the rows computes it
CleanedText(r) == clean_caption_text(ReplaceChar(r.text, "\n", <<" ">>))

IsSpeech(r) == CleanedText(r) # <<>> /\ ~is_non_speech(CleanedText(r))

\* C13: in every step of the loop over the rows that appends a speech
\* utterance to the buffer, the buffer is flushed by the threshold (and is
\* empty afterwards) if and only if the sentence counts of the texts then in
\* the buffer, the new one included, total at least 3; so a paragraph closed
\* by the threshold has at least 3 sentences and the buffer is left with fewer
\* than 3.
C13_ThresholdFlush ==
    [][(pc = "rows" /\ ri' = ri + 1 /\ IsSpeech(grouped[ci][ri + 1])) =>
          LET b == Append(buf, CleanedText(grouped[ci][ri + 1]))
          IN /\ (buf' = <<>>) <=> (SentencesIn(b) >= SentenceThreshold)
             /\ SentencesIn(buf') < SentenceThreshold]_vars

\* C14: once get_transcript has returned, on the captions path and on the ASR
\* path, every utterance of the transcript has a text that is not empty after
\* cleaning, so render receives no utterance that cleans to nothing.
C14_NoEmptyCleanedText ==
    transcript_source # "none" =>
        \A k \in 1..Len(transcript) : clean_caption_text(transcript[k].text) # <<>>

\* the body of the document the run must produce: what render returns when no
\* style prompt was read or the LLM pass failed, else all the LLM printed,
\* trimmed, with one newline after it
ExpectedBody ==
    IF prompt_text = <<>> \/ LlmFailed
    THEN render(meta, chapters, transcript)
    ELSE Strip(gemini.stdout) \o <<"\n">>

\* C15: the LLM tool is run at most once, and only when a style prompt text
\* was read; the body of the document is either the whole trimmed LLM output
\* with one trailing newline or the whole output of render, and it is the
\* output of render exactly when no prompt text was read or the LLM pass
\* failed.
C15_AllOrNothing ==
    /\ gemini_runs <= 1
    /\ gemini.called => prompt_text # <<>>
    /\ gemini_runs > 0 => gemini.called
    /\ pc = "provenance" => note = ExpectedBody
    /\ pc = "done" =>
          note = IF transcript_source = "asr-fallback"
                 THEN RStrip(ExpectedBody) \o STR_Provenance
                 ELSE ExpectedBody

C15_Witness ==
    /\ pc = "done"
    /\ gemini_runs = 1
    /\ gemini.returncode = 0
    /\ ~AllSpace(gemini.stdout)
    /\ transcript_source = "youtube-subtitles"
    /\ note = Strip(gemini.stdout) \o <<"\n">>
    /\ note # render(meta, chapters, transcript)

IsEvent(r) == CleanedText(r) # <<>> /\ is_non_speech(CleanedText(r))

RECURSIVE MergeSpeech(_)
\* a sequence of [ev, text] items with every run of adjacent speech items
\* (ev = FALSE) made one item, their texts joined by a space
MergeSpeech(items) ==
    IF Len(items) <= 1 THEN items
    ELSE LET rest == MergeSpeech(Tail(items))
         IN IF ~items[1].ev /\ ~rest[1].ev
            THEN <<[ev |-> FALSE, text |-> items[1].text \o <<" ">> \o rest[1].text]>>
                 \o Tail(rest)
            ELSE <<items[1]>> \o rest

\* the utterances of chapter i that clean to some text, in transcript order:
\* an event with its text in brackets, or the text of a speech utterance
UtteranceItems(i) ==
    LET rows == SelectSeq(grouped[i], LAMBDA r : CleanedText(r) # <<>>)
    IN [k \in 1..Len(rows) |->
          IF IsEvent(rows[k])
          THEN [ev |-> TRUE, text |-> <<"[">> \o CleanedText(rows[k]) \o <<"]">>]
          ELSE [ev |-> FALSE, text |-> CleanedText(rows[k])]]

\* the paragraph and event lines of the section of chapter i, in output order,
\* without speaker prefix and timestamp
OutputItems(i) ==
    LET ls == SelectSeq(out, LAMBDA l : l.ch = i /\ l.kind \in {"para", "event"})
    IN [k \in 1..Len(ls) |->
          [ev |-> ls[k].kind = "event", text |-> ParagraphText(ls[k], Speaker(meta))]]

\* C16: after the step of the loop over the rows that handles a non-speech
\* utterance the buffer is empty and the last line of the output is that
\* utterance's event line, alone on its line; and in the rendered document
\* the paragraph and event lines of a chapter follow the order of its
\* utterances, every event line standing between the speech said before it and
\* the speech said after it, so that no paragraph holds speech from both sides
\* of an event.
C16_EventOrdering ==
    /\ (pc = "rows" /\ ri >= 1 /\ IsEvent(grouped[ci][ri])) =>
          /\ buf = <<>>
          /\ Len(out) >= 2
          /\ out[Len(out)].kind = "blank"
          /\ out[Len(out) - 1].text
               = <<"[">> \o CleanedText(grouped[ci][ri]) \o <<"]", " ">>
                   \o hms(grouped[ci][ri].start)
    /\ pc = "rendered" =>
          \A i \in 0..(Len(chapters) - 1) :
              MergeSpeech(OutputItems(i)) = MergeSpeech(UtteranceItems(i))

C16_Witness ==
    /\ pc = "rendered"
    /\ \E a, b, c \in 1..Len(out) :
          /\ a < b /\ b < c
          /\ out[a].ch = out[b].ch /\ out[b].ch = out[c].ch
          /\ out[a].kind = "para" /\ out[b].kind = "event" /\ out[c].kind = "para"

RECURSIVE ParagraphsEndAtLast(_, _)
\* every paragraph line of `lines` is made of the texts of the next utterances
\* of `rows` and ends with the timestamp of the last of them
ParagraphsEndAtLast(lines, rows) ==
    IF lines = <<>> THEN TRUE
    ELSE LET ptext == ParagraphText(lines[1], Speaker(meta))
             ks == {k \in 1..Len(rows) :
                      Join(<<" ">>, [j \in 1..k |-> CleanedText(rows[j])]) = ptext}
         IN /\ ks # {}
            /\ LET k == CHOOSE n \in ks : TRUE
               IN /\ EndsWith(lines[1].text, <<" ">> \o hms(rows[k].start))
                  /\ ParagraphsEndAtLast(Tail(lines), SubSeq(rows, k + 1, Len(rows)))

EventLines(i) == SelectSeq(out, LAMBDA l : l.kind = "event" /\ l.ch = i)

\* C17: in the rendered document every paragraph line, whether the threshold,
\* an event or the end of the chapter closed it, ends with the timestamp of
\* the start of the last utterance whose text is in it, and every event line
\* ends with the timestamp of the start of its own utterance.
C17_TimestampOfLastUtterance ==
    pc = "rendered" =>
        \A i \in 0..(Len(chapters) - 1) :
            LET events == SelectSeq(grouped[i], IsEvent)
            IN /\ ParagraphsEndAtLast(ParagraphLines(i), SelectSeq(grouped[i], IsSpeech))
               /\ Len(EventLines(i)) = Len(events)
               /\ \A k \in 1..Len(events) :
                     EndsWith(EventLines(i)[k].text, <<" ">> \o hms(events[k].start))

C17_Witness ==
    /\ pc = "rendered"
    /\ \E i \in 0..(Len(chapters) - 1) :
          \E a \in 1..(Len(grouped[i]) - 2) :
              /\ IsSpeech(grouped[i][a]) /\ grouped[i][a].start = 1
              /\ IsSpeech(grouped[i][a + 1]) /\ grouped[i][a + 1].start = 3
              /\ IsEvent(grouped[i][a + 2])
              /\ \E k \in 1..Len(ParagraphLines(i)) :
                    /\ ParagraphTexts(i)[k]
                         = CleanedText(grouped[i][a]) \o <<" ">> \o CleanedText(grouped[i][a + 1])
                    /\ EndsWith(ParagraphLines(i)[k].text, hms(3))

\* the lines of the section of chapter i that begin with the speaker prefix
PrefixedLines(i) == SelectSeq(out, LAMBDA l : l.ch = i /\ StartsWith(l.text, SpeakerPrefix))

\* C18: in the rendered document, a chapter section with at least one dialogue
\* paragraph has exactly one line that begins with the speaker prefix (the
\* uploader's name, or "Speaker 1" without one), and that line is its first
\* paragraph, whatever the earlier chapters held; a section without a
\* paragraph has no such line, so event lines, headings and the marker never
\* carry the prefix.
C18_SpeakerTagOncePerChapter ==
    pc = "rendered" =>
        \A i \in 0..(Len(chapters) - 1) :
            /\ PrefixedLines(i)
                 = IF ParagraphLines(i) = <<>> THEN <<>> ELSE <<ParagraphLines(i)[1]>>
            /\ \A k \in 1..Len(out) :
                  out[k].ch = i /\ out[k].kind # "para" =>
                      ~StartsWith(out[k].text, SpeakerPrefix)

C18_Witness ==
    /\ pc = "rendered"
    /\ \E i, j \in 0..(Len(chapters) - 1) :
          /\ i < j
          /\ Len(ParagraphLines(i)) >= 1
          /\ Len(ParagraphLines(j)) >= 1
          /\ StartsWith(ParagraphLines(i)[1].text, SpeakerPrefix)
          /\ StartsWith(ParagraphLines(j)[1].text, SpeakerPrefix)

\* the raw text of the utterance, trimmed, is some words between a "[" and
\* a "]"
SquareBracketed(r) ==
    LET t == Strip(r.text)
    IN Len(t) >= 3 /\ t[1] = "[" /\ t[Len(t)] = "]"

\* C19: after the step of the loop over the rows that handles an utterance
\* whose trimmed raw text is wholly enclosed in square brackets, whatever the
\* words inside, the utterance has been emitted as an event line of its own
\* (its bracketed text and its timestamp) and nothing of it is in the
\* paragraph buffer.
C19_BracketedIsEvent ==
    (pc = "rows" /\ ri >= 1 /\ SquareBracketed(grouped[ci][ri])) =>
        /\ buf = <<>>
        /\ Len(out) >= 2
        /\ out[Len(out) - 1].kind = "event"
        /\ out[Len(out) - 1].text
             = Strip(grouped[ci][ri].text) \o <<" ">> \o hms(grouped[ci][ri].start)

\* C20: in the rendered document the section of every chapter has, after its
\* heading, at least one content line: the marker, a paragraph or an event
\* line.
C20_SectionHasContent ==
    pc = "rendered" =>
        \A i \in 0..(Len(chapters) - 1) :
            \E k \in 1..Len(out) :
                out[k].ch = i /\ out[k].kind \in {"marker", "para", "event"}

====
